---------------------------- MODULE Spec2Model ----------------------------
(***************************************************************************)
(* Valhalla orchestrator: the Model Gateway (src/vertex_claude_v2.py,      *)
(* class VertexClaudeV2) and the Persistence Gateway                       *)
(* (src/context_manager_v2.py, class ContextManagerV2) as state machines.  *)
(*                                                                         *)
(* Money is counted in units of 1/4,000,000 dollar, so that the cost of a  *)
(* call, (p/4/1000)*0.003 + (r/4/1000)*0.015 dollars, is the integer       *)
(* 3p + 15r.  Time is counted in whole seconds.                            *)
(***************************************************************************)
EXTENDS Integers, Sequences, FiniteSets, TLC

VARIABLES
    \* ---- VertexClaudeV2 fields (vertex_claude_v2.py:39-43)
    model,               \* TRUE iff self.model is a model handle (not None)
    total_requests,
    total_cost,
    last_request_cost,
    last_response_time,
    \* ---- the position of the one chat call in progress (vertex_claude_v2.py:57-136)
    pc,                  \* "idle" | "calling" | "sleeping" | "done"
    retry_count,         \* the retry_count argument of the call
    attempt,             \* the loop variable of line 96
    full_prompt,         \* len(full_prompt) of line 90
    elapsed,             \* time.time() - start_time
    result,              \* what chat returned: "response" or the error title
    \* ---- observation of the chat call (what a fake endpoint and a fake
    \*      sleep would record)
    calls,               \* generate_content calls made by this chat
    failures,            \* how many of them ended in an exception
    sleeps,              \* the arguments of time.sleep, in order
    chats,               \* chat calls issued so far
    okCount,             \* chats ended in Success since the last reset_stats
    okCost,              \* the sum of their costs
    response_chars,      \* len(response.text) of the last Success
    \* ---- ContextManagerV2 fields (context_manager_v2.py:28-31)
    db,                  \* TRUE iff self.db is a Firestore client (not None)
    cache,               \* self.cache: cache key -> [data, time]
    \* ---- the document store and the clock
    mission,             \* document mission/bootstrap, or NoDoc
    projects,            \* collection 'projects': doc id -> document
    conversations,       \* collection 'conversations': doc id -> document
    history,             \* collection 'conversation_history' (append-only)
    executions,          \* collection 'executions' (append-only)
    now,                 \* datetime.now()
    ticks,               \* clock advances so far
    \* ---- observation of the last Persistence Gateway operation
    last,                \* what it was called with, did and returned
    saved,               \* doc id -> messages of the last save that returned True
    \* ---- st.session_state of one session (app_v2.py:175-199)
    messages,            \* the transcript
    current_project,
    request_count,
    session_total_cost,  \* st.session_state.total_cost
    turn,                \* position of handle_user_input: "idle" | "chatting"
    user_input,          \* its argument
    \* ---- the arguments and the result of _build_prompt
    user_message,
    context,
    conversation_history,
    prompt,              \* the built prompt, as a sequence of parts
    \* ---- sessions saving concurrently, each with its own gateway object
    savers,              \* session -> position and arguments of its save
    primaries,           \* the primary writes made so far, in order
    \* ---- processes constructing a gateway concurrently on the same store
    boot                 \* process -> position of its bootstrap

gatewayVars == <<model, total_requests, total_cost, last_request_cost,
                 last_response_time, pc, retry_count, attempt, full_prompt,
                 elapsed, result, calls, failures, sleeps, chats, okCount, okCost,
                 response_chars>>

storeVars == <<db, cache, mission, projects, conversations, history, executions,
               now, ticks, last, saved>>

sessionVars == <<messages, current_project, request_count, session_total_cost,
                 turn, user_input>>

promptVars == <<user_message, context, conversation_history, prompt>>

saverVars == <<savers, primaries, boot>>

appVars == <<sessionVars, promptVars, saverVars>>

vars == <<gatewayVars, storeVars, appVars>>

---------------------------------------------------------------------------
(* Bounds of the model *)

MaxRetries == 3        \* retry_count ranges over 0..MaxRetries
MaxChats == 2          \* chat calls per behaviour
MaxLatency == 1        \* a remote call takes 1..MaxLatency seconds
MaxLenUnits == 2       \* a response is 1..MaxLenUnits units long
LenUnit == 2000        \* characters per unit of length

RetryValues == 0..MaxRetries
LatencyValues == 1..MaxLatency
Lengths == {k * LenUnit : k \in 1..MaxLenUnits}
PromptLengths == {2 * LenUnit}

---------------------------------------------------------------------------
(* Model Gateway: VertexClaudeV2 *)

\* PRICING in units of 1/4,000,000 dollar per character: a character is a
\* quarter of a token, 1000 input tokens cost 0.003 dollar (3 units per
\* character) and 1000 output tokens 0.015 dollar (15 units).
PricingInput == 3
PricingOutput == 15

\* The titles of _format_error at each return of chat, and the model text.
NotConfigured == "Vertex AI not configured"
BuildFailed == "Failed to build prompt"
RequestFailed == "Vertex AI request failed"
RetriesExceeded == "Maximum retries exceeded"
Response == "response"

RECURSIVE Pow2(_)
Pow2(n) == IF n <= 0 THEN 1 ELSE 2 * Pow2(n - 1)

\* a backoff that starts at 2 seconds
WaitTimeFromTwo(a) == Pow2(a + 1)

\* wait_time = (2 ** attempt) * 1
WaitTime(a) == Pow2(a) * 1

\* a test that also sleeps after the last attempt
MoreAttemptsOffByOne(a, r) == a < r

\* the test of line 122: another attempt follows
MoreAttempts(a, r) == a < r - 1

\* a gateway that never notices the missing handle
ConfiguredAlways == TRUE

\* the test of line 80: self.model is a handle
Configured == model

\* a running total that is overwritten by the last cost
AccumulateOverwrites(total, cost) == cost

\* self.total_cost += self.last_request_cost (line 218)
Accumulate(total, cost) == total + cost

\* the loop of line 96 runs at least once: range(retry_count) is not empty
LoopRuns(r) == r > 0

\* a cost with the two prices swapped
CalculateCostSwapped(promptLen, responseLen) ==
    promptLen * PricingOutput + responseLen * PricingInput

\* _calculate_cost: input_cost + output_cost
CalculateCost(promptLen, responseLen) ==
    promptLen * PricingInput + responseLen * PricingOutput

\* chat, from its entry to the first remote call or to an early return
\* (lines 80-96).  builds = FALSE: _build_prompt raises (a history entry
\* without 'role', a context that is no mapping).  What it does to the
\* gateway object.
chat_body(r, builds, p) ==
    /\ pc \in {"idle", "done"}
    /\ chats < MaxChats
    /\ chats' = chats + 1
    /\ retry_count' = r
    /\ attempt' = 0
    /\ elapsed' = 0
    /\ calls' = 0
    /\ failures' = 0
    /\ sleeps' = << >>
    /\ IF ~Configured
         THEN /\ result' = NotConfigured
              /\ pc' = "done"
              /\ full_prompt' = 0
         ELSE IF ~builds
           THEN /\ result' = BuildFailed
                /\ pc' = "done"
                /\ full_prompt' = 0
           ELSE IF ~LoopRuns(r)
             THEN /\ result' = RetriesExceeded
                  /\ pc' = "done"
                  /\ full_prompt' = p
             ELSE /\ result' = "none"
                  /\ pc' = "calling"
                  /\ full_prompt' = p
    /\ UNCHANGED <<model, total_requests, total_cost, last_request_cost,
                   last_response_time, okCount, okCost, response_chars>>

\* chat called on its own
chat(r, builds, p) ==
    /\ chat_body(r, builds, p)
    /\ UNCHANGED <<storeVars, appVars>>

\* lines 105-117: generate_content returns and response.text is readable
generate_content_returns(responseLen, latency) ==
    /\ pc = "calling"
    /\ calls' = calls + 1
    /\ elapsed' = elapsed + latency
    /\ last_response_time' = elapsed'
    /\ last_request_cost' = CalculateCost(full_prompt, responseLen)
    /\ total_cost' = Accumulate(total_cost, last_request_cost')
    /\ total_requests' = total_requests + 1
    /\ okCount' = okCount + 1
    /\ okCost' = okCost + last_request_cost'
    /\ result' = Response
    /\ response_chars' = responseLen
    /\ pc' = "done"
    /\ UNCHANGED <<model, retry_count, attempt, full_prompt, failures, sleeps, chats>>
    /\ UNCHANGED <<storeVars, appVars>>

\* lines 119-134: an exception inside the try block.  It comes from
\* generate_content (line 105), or from response.text (line 112, a blocked
\* or empty response), which is read after line 111 has assigned
\* last_response_time.
generate_content_raises(where, latency) ==
    /\ pc = "calling"
    /\ calls' = calls + 1
    /\ failures' = failures + 1
    /\ elapsed' = elapsed + latency
    /\ last_response_time' = IF where = "text" THEN elapsed' ELSE last_response_time
    /\ IF MoreAttempts(attempt, retry_count)
         THEN /\ sleeps' = Append(sleeps, WaitTime(attempt))
              /\ pc' = "sleeping"
              /\ result' = result
         ELSE /\ sleeps' = sleeps
              /\ pc' = "done"
              /\ result' = RequestFailed
    /\ UNCHANGED <<model, total_requests, total_cost, last_request_cost,
                   retry_count, attempt, full_prompt, chats, okCount, okCost,
                   response_chars>>
    /\ UNCHANGED <<storeVars, appVars>>

\* time.sleep(wait_time) returns and the loop of line 96 goes on
sleep_returns ==
    /\ pc = "sleeping"
    /\ elapsed' = elapsed + sleeps[Len(sleeps)]
    /\ attempt' = attempt + 1
    /\ pc' = "calling"
    /\ UNCHANGED <<model, total_requests, total_cost, last_request_cost,
                   last_response_time, retry_count, full_prompt, result,
                   calls, failures, sleeps, chats, okCount, okCost,
                   response_chars>>
    /\ UNCHANGED <<storeVars, appVars>>

\* a reset that also forgets the last response time
reset_stats_and_time ==
    /\ pc \in {"idle", "done"}
    /\ total_requests' = 0
    /\ total_cost' = 0
    /\ last_request_cost' = 0
    /\ last_response_time' = 0
    /\ okCount' = 0
    /\ okCost' = 0
    /\ UNCHANGED <<model, pc, retry_count, attempt, full_prompt, elapsed, result,
                   calls, failures, sleeps, chats, response_chars>>
    /\ UNCHANGED <<storeVars, appVars>>

\* reset_stats (lines 266-271), between chat calls
reset_stats ==
    /\ pc \in {"idle", "done"}
    /\ total_requests' = 0
    /\ total_cost' = 0
    /\ last_request_cost' = 0
    /\ okCount' = 0
    /\ okCost' = 0
    /\ UNCHANGED <<model, last_response_time, pc, retry_count, attempt,
                   full_prompt, elapsed, result, calls, failures, sleeps, chats,
                   response_chars>>
    /\ UNCHANGED <<storeVars, appVars>>

\* round(x, 4) of a dollar amount: to the nearest multiple of 400 units,
\* a tie going to the even multiple
Round4(x) ==
    LET q == x \div 400
        r == x % 400
    IN  IF r < 200 \/ (r = 200 /\ q % 2 = 0) THEN q * 400 ELSE (q + 1) * 400

\* get_stats (lines 254-264); model name, project id and region are fixed
\* at construction and left out; times are whole seconds
GetStats ==
    [total_requests |-> total_requests,
     total_cost |-> Round4(total_cost),
     last_request_cost |-> Round4(last_request_cost),
     last_response_time |-> last_response_time]

\* __init__ (lines 33-55): the handle exists or not, the counters are zero
GatewayInit ==
    /\ model \in BOOLEAN
    /\ total_requests = 0
    /\ total_cost = 0
    /\ last_request_cost = 0
    /\ last_response_time = 0
    /\ pc = "idle"
    /\ retry_count = 0
    /\ attempt = 0
    /\ full_prompt = 0
    /\ elapsed = 0
    /\ result = "none"
    /\ calls = 0
    /\ failures = 0
    /\ sleeps = << >>
    /\ chats = 0
    /\ okCount = 0
    /\ okCost = 0
    /\ response_chars = 0

\* A document that is none: what `last` holds where no document was returned
NoDoc == [none |-> TRUE]

\* No Persistence Gateway operation observed yet
NoObs == [op |-> "none", name |-> << >>, ok |-> FALSE, doc |-> NoDoc,
          msgs |-> << >>, queried |-> FALSE, readok |-> FALSE,
          wrote |-> FALSE, backup |-> "none", raised |-> FALSE,
          status |-> "none"]

\* No session
SessionIdle ==
    /\ messages = << >>
    /\ current_project = << >>
    /\ request_count = 0
    /\ session_total_cost = 0
    /\ turn = "idle"
    /\ user_input = ""

\* No prompt being built
PromptIdle ==
    /\ user_message = ""
    /\ context = NoDoc
    /\ conversation_history = << >>
    /\ prompt = << >>

\* No session, no prompt being built, nobody saving
AppIdle ==
    /\ SessionIdle
    /\ PromptIdle
    /\ savers = << >>
    /\ primaries = << >>
    /\ boot = << >>

StoreIdle ==
    /\ db = FALSE
    /\ cache = << >>
    /\ mission = NoDoc
    /\ projects = << >>
    /\ conversations = << >>
    /\ history = << >>
    /\ executions = << >>
    /\ now = 0
    /\ ticks = 0
    /\ last = NoObs
    /\ saved = << >>

GatewayNext ==
    \/ \E r \in RetryValues, builds \in BOOLEAN, p \in PromptLengths : chat(r, builds, p)
    \/ \E n \in Lengths, d \in LatencyValues : generate_content_returns(n, d)
    \/ \E w \in {"generate_content", "text"}, d \in LatencyValues :
          generate_content_raises(w, d)
    \/ sleep_returns
    \/ reset_stats

GatewaySpecInit == GatewayInit /\ StoreIdle /\ AppIdle

\* The Model Gateway alone
GatewaySpec == GatewaySpecInit /\ [][GatewayNext]_vars

\* The remote call ends, one way or the other
CallEnds ==
    \/ \E n \in Lengths, d \in LatencyValues : generate_content_returns(n, d)
    \/ \E w \in {"generate_content", "text"}, d \in LatencyValues :
          generate_content_raises(w, d)

\* A remote call in progress ends and time.sleep returns; nothing is
\* assumed about which way a call ends
GatewayFair == WF_vars(CallEnds) /\ WF_vars(sleep_returns)

GatewayFairSpec == GatewaySpec /\ GatewayFair

---------------------------------------------------------------------------
(* Claims about the Model Gateway *)

\* The waits 2^0, 2^1, 2^2, ... written out
Doubling == <<1, 2, 4, 8, 16, 32, 64>>

\* A chat call that got past the configuration test and the prompt building
PastBuilding == model /\ result # BuildFailed

\* C1: a configured gateway whose remote call raises on every attempt of a
\* chat with retries = r >= 1 makes exactly r remote calls, sleeps 2^n
\* seconds after failed attempt n for n in 0..r-2 and not after the last
\* one, and returns the error text.  While the call runs, the sleeps so far
\* are the first waits of that schedule, one per failed attempt but the last.
C1_BackoffSchedule ==
    /\ sleeps = SubSeq(Doubling, 1, Len(sleeps))
    /\ pc = "calling" => Len(sleeps) = attempt /\ calls = attempt
    /\ pc = "sleeping" => Len(sleeps) = attempt + 1 /\ calls = attempt + 1
    /\ (pc = "done" /\ PastBuilding /\ retry_count >= 1 /\ failures = calls)
          => /\ calls = retry_count
             /\ sleeps = SubSeq(Doubling, 1, retry_count - 1)
             /\ result = RequestFailed

C1_Witness ==
    /\ pc = "done" /\ retry_count = 3 /\ failures = 3 /\ calls = 3
    /\ sleeps = <<1, 2>> /\ result = RequestFailed

\* C2: chat on a gateway without a model handle returns the
\* configuration-error text at once: no remote call, no sleep, and
\* total_requests, total_cost, last_request_cost and last_response_time
\* are as they were.
C2_NotConfiguredImmediate ==
    [][(chats' = chats + 1 /\ ~model) =>
          /\ pc' = "done"
          /\ result' = NotConfigured
          /\ calls' = 0
          /\ sleeps' = << >>
          /\ UNCHANGED <<total_requests, total_cost, last_request_cost,
                         last_response_time>>]_vars

C2_Witness ==
    ~model /\ chats = 2 /\ pc = "done" /\ result = NotConfigured /\ calls = 0

\* C3: every chat call of a configured gateway whose prompt builds makes at
\* least one remote call, whatever the retries argument (0 included), and
\* returns the exhausted-retries error only after a remote call has raised.
C3_AlwaysCallsOnce ==
    (pc = "done" /\ PastBuilding) =>
        /\ calls >= 1
        /\ result \in {RequestFailed, RetriesExceeded} => failures >= 1

\* C4: total_requests is the number of chat calls that ended in Success
\* since the last reset_stats and total_cost the sum of their costs; a
\* Success is the last remote call of its chat, and every other call of it
\* failed.
C4_CountersCountSuccesses ==
    /\ total_requests = okCount
    /\ total_cost = okCost
    /\ (pc = "done" /\ result = Response) => calls = failures + 1
    /\ (pc = "done" /\ result # Response) => calls = failures

C4_Witness ==
    /\ chats = 2 /\ pc = "done" /\ result = RequestFailed /\ failures = 2
    /\ total_requests = 1 /\ total_cost = CalculateCost(4000, 2000)

\* The text chat returns: one of its five return statements
Terminal == {NotConfigured, BuildFailed, Response, RequestFailed, RetriesExceeded}

Max0(n) == IF n > 0 THEN n ELSE 0

C5_Bounds ==
    /\ pc = "done" => result \in Terminal
    /\ pc # "done" => result = "none"
    /\ calls <= Max0(retry_count)
    /\ Len(sleeps) <= Max0(retry_count - 1)

\* C5 (as amended): every chat call returns a text in exactly one terminal
\* state, NotConfigured, BuildFailed, Success or ExhaustedRetries (either
\* error text), after at most max(retries, 0) remote calls and at most
\* max(retries - 1, 0) sleeps, whatever the endpoint does.
C5_Terminates ==
    /\ []C5_Bounds
    /\ (pc \in {"calling", "sleeping"}) ~> (pc = "done")

C5_Witness ==
    /\ pc = "done" /\ result = Response /\ retry_count = 3
    /\ calls = 3 /\ Len(sleeps) = 2

\* C5 as stated: the terminal state is NotConfigured, Success or
\* ExhaustedRetries (either error text), after at most retries calls and
\* at most retries - 1 sleeps (none when retries < 1).
C5_AsStated ==
    pc = "done" =>
        /\ result \in {NotConfigured, Response, RequestFailed, RetriesExceeded}
        /\ calls <= Max0(retry_count)
        /\ Len(sleeps) <= Max0(retry_count - 1)

---------------------------------------------------------------------------
(* Persistence Gateway: ContextManagerV2 *)

MaxTicks == 2          \* clock advances per behaviour
MaxHistory == 1        \* entries of the conversation_history collection
MaxExecutions == 1     \* entries of the executions collection

\* self.cache_ttl = 300 (seconds)
cache_ttl == 300

\* The clock advances by one of these (seconds)
TickSteps == {1, 299}

\* Project names are sequences of characters.  HP stands for a canonical
\* name such as 'HAVEN Platform', hp and h_p for other spellings of it,
\* FC for 'First Contact', CS for 'Company Site', NX for a project that
\* has no document.
HP == <<"H", " ", "P">>
h_p == <<"h", "_", "p">>
FC == <<"F", " ", "C">>
CS == <<"C", " ", "S">>
NX == <<"N", " ", "X">>
Names == {HP, h_p, NX}

\* str.lower on one character
Lower(c) ==
    CASE c = "H" -> "h" [] c = "P" -> "p" [] c = "F" -> "f" [] c = "C" -> "c"
      [] c = "S" -> "s" [] c = "N" -> "n" [] c = "X" -> "x" [] OTHER -> c

\* .replace(' ', '_') on one character
Underscore(c) == IF c = " " THEN "_" ELSE c

\* a document id that is lower-cased only
DocIdLowerOnly(name) == [i \in 1..Len(name) |-> Lower(name[i])]

\* doc_id = project_name.lower().replace(' ', '_') (lines 160, 202, 254, 292)
DocId(name) == [i \in 1..Len(name) |-> Underscore(Lower(name[i]))]

\* cache_key = f"project_{project_name}"
CacheKey(name) == <<"project_">> \o name

\* a write that keeps the value that is already there
PutIfAbsent(f, k, v) == [x \in DOMAIN f \cup {k} |-> IF x \in DOMAIN f THEN f[x] ELSE v]

\* dict[k] = v and del dict[k]; document.set(v) on the document k
Put(f, k, v) == [x \in DOMAIN f \cup {k} |-> IF x = k THEN v ELSE f[x]]
Del(f, k) == [x \in DOMAIN f \ {k} |-> f[x]]

\* dict.update: the fields of u replace or extend those of d
Merge(d, u) == [x \in DOMAIN d \cup DOMAIN u |-> IF x \in DOMAIN u THEN u[x] ELSE d[x]]

\* The documents _initialize_projects seeds: name, status and priority of
\* each (the descriptive fields and the server timestamps are left out)
SeedProject(name, status, priority) ==
    [name |-> name, status |-> status, priority |-> priority]

\* The keys of the dict `projects` of _initialize_projects, as written there
haven_platform == <<"h", "_", "p">>
first_contact == <<"f", "_", "c">>
company_site == <<"c", "_", "s">>

SeedIds == {haven_platform, first_contact, company_site}

SeedProjects ==
    Put(Put(Put(<< >>, haven_platform, SeedProject(HP, "Live", 1)),
                       first_contact, SeedProject(FC, "Building", 2)),
                       company_site, SeedProject(CS, "Planning", 3))

\* mission_data of _initialize_mission_context (three of its fields)
MissionData == [goal_revenue |-> 15000, primary_stream |-> HP, founder |-> "James"]

\* a default context that does not say it is offline
DefaultContextOnline(name) ==
    [name |-> name, status |-> "Unknown",
     description |-> "Context unavailable - Firestore not connected",
     offline_mode |-> FALSE]

\* _get_default_project_context
DefaultContext(name) ==
    [name |-> name, status |-> "Unknown",
     description |-> "Context unavailable - Firestore not connected",
     offline_mode |-> TRUE]

\* a cache whose entries never expire
FreshForever(age) == TRUE

\* a cache whose entries live one second too long
FreshInclusive(age) == age <= cache_ttl

\* datetime.now() - cached_time < timedelta(seconds=self.cache_ttl)
Fresh(age) == age < cache_ttl

\* Every store access of a public operation is inside try/except Exception:
\* the exception of a failed access does not leave the operation.
Escapes(storeOk) == FALSE

\* a get_project_context that caches the default context it returns
get_project_context_body_negative(name, storeOk) ==
    LET key == CacheKey(name)
        hit == key \in DOMAIN cache /\ Fresh(now - cache[key].time)
        found == db /\ storeOk /\ DocId(name) \in DOMAIN projects
        obs == [NoObs EXCEPT !.op = "get", !.name = name]
    IN  /\ IF hit
             THEN /\ last' = [obs EXCEPT !.doc = cache[key].data]
                  /\ cache' = cache
             ELSE IF found
               THEN /\ cache' = Put(cache, key,
                                    [data |-> projects[DocId(name)], time |-> now])
                    /\ last' = [obs EXCEPT !.doc = projects[DocId(name)],
                                           !.queried = TRUE, !.readok = TRUE]
               ELSE /\ cache' = Put(cache, key,
                                    [data |-> DefaultContext(name), time |-> now])
                    /\ last' = [obs EXCEPT !.doc = DefaultContext(name),
                                           !.queried = db,
                                           !.readok = db /\ storeOk,
                                           !.raised = db /\ Escapes(storeOk)]
        /\ UNCHANGED <<db, mission, projects, conversations, history, executions,
                       now, ticks, saved>>

\* get_project_context.  storeOk = FALSE: the read of the store raises.
\* What it does to the gateway object and the store.
get_project_context_body(name, storeOk) ==
    LET key == CacheKey(name)
        hit == key \in DOMAIN cache /\ Fresh(now - cache[key].time)
        found == db /\ storeOk /\ DocId(name) \in DOMAIN projects
        obs == [NoObs EXCEPT !.op = "get", !.name = name]
    IN  /\ IF hit
             THEN /\ last' = [obs EXCEPT !.doc = cache[key].data]
                  /\ cache' = cache
             ELSE IF found
               THEN /\ cache' = Put(cache, key,
                                    [data |-> projects[DocId(name)], time |-> now])
                    /\ last' = [obs EXCEPT !.doc = projects[DocId(name)],
                                           !.queried = TRUE, !.readok = TRUE]
               ELSE /\ cache' = cache
                    /\ last' = [obs EXCEPT !.doc = DefaultContext(name),
                                           !.queried = db,
                                           !.readok = db /\ storeOk,
                                           !.raised = db /\ Escapes(storeOk)]
        /\ UNCHANGED <<db, mission, projects, conversations, history, executions,
                       now, ticks, saved>>

\* get_project_context called on its own
get_project_context(name, storeOk) ==
    /\ get_project_context_body(name, storeOk)
    /\ UNCHANGED <<gatewayVars, appVars>>

\* a cache invalidation that uses the document id as the cache key
InvalidatedKeyNormalized(project) == CacheKey(DocId(project))

\* the cache key update_project_status deletes (line 307)
InvalidatedKey(project) == CacheKey(project)

\* update_data of update_project_status (lines 295-301), without the
\* server timestamp; None and {} are the mapping without fields
UpdateData(status, updates) ==
    Merge([status |-> status], updates)

NoUpdates == [f \in {} |-> 0]
Updates == {NoUpdates, [priority |-> 9], [status |-> "Paused"]}
NewStatuses == {"Live", "Paused"}

\* update_project_status.  project_ref.update raises when the document
\* does not exist or the store fails.
update_project_status(project, status, updates, storeOk) ==
    LET id == DocId(project)
        done == db /\ storeOk /\ id \in DOMAIN projects
        obs == [NoObs EXCEPT !.op = "update", !.name = project,
                             !.status = status,
                             !.queried = db, !.readok = db /\ storeOk]
    IN  /\ IF done
             THEN /\ projects' = Put(projects, id,
                                     Merge(projects[id], UpdateData(status, updates)))
                  /\ cache' = Del(cache, InvalidatedKey(project))
                  /\ last' = [obs EXCEPT !.ok = TRUE, !.wrote = TRUE,
                                         !.doc = projects'[id]]
             ELSE /\ UNCHANGED <<projects, cache>>
                  /\ last' = [obs EXCEPT !.raised = db /\ Escapes(done)]
        /\ UNCHANGED <<db, mission, conversations, history, executions, now, ticks, saved>>
        /\ UNCHANGED <<gatewayVars, appVars>>

\* clear_cache
clear_cache ==
    /\ cache' = << >>
    /\ last' = [NoObs EXCEPT !.op = "clear"]
    /\ UNCHANGED <<db, mission, projects, conversations, history, executions, now, ticks, saved>>
    /\ UNCHANGED <<gatewayVars, appVars>>

\* Time passes between two operations
Tick(d) ==
    /\ ticks < MaxTicks
    /\ ticks' = ticks + 1
    /\ now' = now + d
    /\ last' = [NoObs EXCEPT !.op = "tick"]
    /\ UNCHANGED <<db, cache, mission, projects, conversations, history, executions, saved>>
    /\ UNCHANGED <<gatewayVars, appVars>>

\* Messages and the transcripts handed to save_conversation
UserMsg == [role |-> "user", content |-> "q"]
AssistantMsg == [role |-> "assistant", content |-> "a"]
MsgLists == {<< >>, <<UserMsg, AssistantMsg>>,
             <<AssistantMsg, UserMsg, AssistantMsg, UserMsg, AssistantMsg>>}

\* a document that keeps only the last two messages
ConversationDataWindowed(project, msgs) ==
    [project |-> project,
     messages |-> IF Len(msgs) > 2
                    THEN SubSeq(msgs, Len(msgs) - 1, Len(msgs))
                    ELSE msgs,
     message_count |-> Len(msgs), version |-> 2]

\* conversation_data of save_conversation (lines 206-212), without the
\* server timestamp
ConversationData(project, msgs) ==
    [project |-> project, messages |-> msgs,
     message_count |-> Len(msgs), version |-> 2]

\* a save that reports a failed backup as its own failure
SaveReturnsBackup(primaryOk, backupOk) == primaryOk /\ backupOk

\* What save_conversation returns once the client exists: True after the
\* primary write (line 221: _save_conversation_history has caught its own
\* exception), False when the primary write raised (line 225)
SaveReturns(primaryOk, backupOk) == primaryOk

\* save_conversation with _save_conversation_history.  primaryOk = FALSE:
\* conversation_ref.set raises; backupOk = FALSE: history_ref.set raises.
\* What it does to the gateway object and the store.
save_conversation_body(project, msgs, primaryOk, backupOk) ==
    LET id == DocId(project)
        ret == db /\ SaveReturns(primaryOk, backupOk)
        obs == [NoObs EXCEPT !.op = "save", !.name = project, !.msgs = msgs,
                             !.queried = db, !.readok = db /\ primaryOk]
    IN  /\ backupOk => Len(history) < MaxHistory
        /\ IF db /\ primaryOk
             THEN /\ conversations' = Put(conversations, id,
                                          ConversationData(project, msgs))
                  /\ history' = IF backupOk
                                  THEN Append(history,
                                         [project |-> project, messages |-> msgs,
                                          message_count |-> Len(msgs)])
                                  ELSE history
                  /\ last' = [obs EXCEPT !.ok = ret, !.wrote = TRUE,
                                         !.backup = IF backupOk THEN "ok" ELSE "failed"]
             ELSE /\ UNCHANGED <<conversations, history>>
                  /\ last' = [obs EXCEPT !.ok = ret,
                                         !.raised = db /\ Escapes(primaryOk)]
        /\ saved' = IF ret THEN Put(saved, id, msgs) ELSE saved
        /\ UNCHANGED <<db, cache, projects, mission, executions, now, ticks>>

\* save_conversation called on its own
save_conversation(project, msgs, primaryOk, backupOk) ==
    /\ save_conversation_body(project, msgs, primaryOk, backupOk)
    /\ UNCHANGED <<gatewayVars, appVars>>

\* get_last_conversation
get_last_conversation(project, storeOk) ==
    LET id == DocId(project)
        obs == [NoObs EXCEPT !.op = "getlast", !.name = project,
                             !.queried = db, !.readok = db /\ storeOk]
    IN  /\ last' = IF db /\ storeOk /\ id \in DOMAIN conversations
                     THEN [obs EXCEPT !.msgs = conversations[id].messages]
                     ELSE [obs EXCEPT !.raised = db /\ Escapes(storeOk)]
        /\ UNCHANGED <<db, cache, projects, mission, conversations, history,
                       executions, now, ticks, saved>>
        /\ UNCHANGED <<gatewayVars, appVars>>

\* log_execution (metadata left out)
log_execution(project, action, cost, storeOk) ==
    LET obs == [NoObs EXCEPT !.op = "log", !.name = project,
                             !.queried = db, !.readok = db /\ storeOk]
    IN  /\ storeOk => Len(executions) < MaxExecutions
        /\ IF db /\ storeOk
             THEN /\ executions' = Append(executions,
                                          [project |-> project, action |-> action,
                                           cost |-> cost, timestamp |-> now])
                  /\ last' = [obs EXCEPT !.ok = TRUE, !.wrote = TRUE]
             ELSE /\ executions' = executions
                  /\ last' = [obs EXCEPT !.raised = db /\ Escapes(storeOk)]
        /\ UNCHANGED <<db, cache, projects, mission, conversations, history,
                       now, ticks, saved>>
        /\ UNCHANGED <<gatewayVars, appVars>>

SecondsPerDay == 86400

\* a query whose period leaves out the entry made exactly at the threshold
SelectedAfter(project, days) ==
    {i \in 1..Len(executions) :
        /\ project # << >> => executions[i].project = project
        /\ executions[i].timestamp > now - days * SecondsPerDay}

\* The entries the query of get_usage_stats streams (lines 381-388);
\* project = << >> stands for no project filter (None or '')
Selected(project, days) ==
    {i \in 1..Len(executions) :
        /\ project # << >> => executions[i].project = project
        /\ executions[i].timestamp >= now - days * SecondsPerDay}

RECURSIVE SumCost(_)
SumCost(S) ==
    IF S = {} THEN 0
    ELSE LET i == CHOOSE x \in S : TRUE IN executions[i].cost + SumCost(S \ {i})

\* The statistics of lines 391-409 over the selected entries
UsageStats(project, days) ==
    LET S == Selected(project, days)
        acts == {executions[i].action : i \in S}
    IN  [total_cost |-> Round4(SumCost(S)),
         total_requests |-> Cardinality(S),
         actions |-> [a \in acts |-> Cardinality({i \in S : executions[i].action = a})],
         period_days |-> days,
         project |-> IF project # << >> THEN project ELSE <<"all">>]

\* get_usage_stats: the statistics, or {'error': ...} (lines 374, 413)
get_usage_stats(project, days, storeOk) ==
    LET obs == [NoObs EXCEPT !.op = "usage", !.name = project,
                             !.queried = db, !.readok = db /\ storeOk]
    IN  /\ last' = IF db /\ storeOk
                     THEN [obs EXCEPT !.doc = UsageStats(project, days)]
                     ELSE [obs EXCEPT !.doc = [error |-> IF db THEN "exception"
                                                        ELSE "Firestore not available"],
                                      !.raised = db /\ Escapes(storeOk)]
        /\ UNCHANGED <<db, cache, projects, mission, conversations, history,
                       executions, now, ticks, saved>>
        /\ UNCHANGED <<gatewayVars, appVars>>

\* health_check: one read of mission/bootstrap (project_configured and
\* the timestamp are left out)
health_check(storeOk) ==
    LET obs == [NoObs EXCEPT !.op = "health", !.queried = db,
                             !.readok = db /\ storeOk]
    IN  /\ last' = IF db /\ storeOk
                     THEN [obs EXCEPT !.doc = [healthy |-> TRUE, client_initialized |-> db,
                                               mission_exists |-> mission # NoDoc]]
                     ELSE IF db
                       THEN [obs EXCEPT !.doc = [healthy |-> FALSE, client_initialized |-> db,
                                                 error |-> "exception"],
                                        !.raised = Escapes(storeOk)]
                       ELSE [obs EXCEPT !.doc = [healthy |-> FALSE, client_initialized |-> db]]
        /\ UNCHANGED <<db, cache, projects, mission, conversations, history,
                       executions, now, ticks, saved>>
        /\ UNCHANGED <<gatewayVars, appVars>>

\* __init__ (lines 26-43): the client exists or not; the store holds the
\* seeded documents, or none when it could not be reached at construction
StoreInit ==
    /\ db \in BOOLEAN
    /\ cache = << >>
    /\ mission \in {NoDoc, MissionData}
    /\ projects = IF mission # NoDoc THEN SeedProjects ELSE << >>
    /\ conversations = << >>
    /\ history = << >>
    /\ executions = << >>
    /\ now = 0
    /\ ticks = 0
    /\ last = NoObs
    /\ saved = << >>

\* A gateway nobody calls
GatewayIdle ==
    /\ model = FALSE
    /\ total_requests = 0
    /\ total_cost = 0
    /\ last_request_cost = 0
    /\ last_response_time = 0
    /\ pc = "idle"
    /\ retry_count = 0
    /\ attempt = 0
    /\ full_prompt = 0
    /\ elapsed = 0
    /\ result = "none"
    /\ calls = 0
    /\ failures = 0
    /\ sleeps = << >>
    /\ chats = 0
    /\ okCount = 0
    /\ okCost = 0
    /\ response_chars = 0

ContextInit == StoreInit /\ GatewayIdle /\ AppIdle

ContextNext ==
    \/ \E n \in Names, ok \in BOOLEAN : get_project_context(n, ok)
    \/ \E n \in Names, st \in NewStatuses, u \in Updates, ok \in BOOLEAN :
          update_project_status(n, st, u, ok)
    \/ clear_cache
    \/ \E d \in TickSteps : Tick(d)

\* The project documents, the cache and the clock
ContextSpec == ContextInit /\ [][ContextNext]_vars

ConversationNext ==
    \/ \E n \in Names, m \in MsgLists, pOk \in BOOLEAN, bOk \in BOOLEAN :
          save_conversation(n, m, pOk, bOk)
    \/ \E n \in Names, ok \in BOOLEAN : get_last_conversation(n, ok)

\* The conversation documents and their backups
ConversationSpec == ContextInit /\ [][ConversationNext]_vars

Actions == {"chat", "deploy"}

PersistenceNext ==
    \/ \E n \in {HP, NX}, ok \in BOOLEAN : get_project_context(n, ok)
    \/ \E n \in {HP, NX}, m \in {<<UserMsg, AssistantMsg>>},
          pOk \in BOOLEAN, bOk \in BOOLEAN : save_conversation(n, m, pOk, bOk)
    \/ \E n \in {HP, NX}, ok \in BOOLEAN : get_last_conversation(n, ok)
    \/ \E n \in {HP, NX}, st \in NewStatuses, ok \in BOOLEAN :
          update_project_status(n, st, NoUpdates, ok)
    \/ \E a \in Actions, ok \in BOOLEAN : log_execution(HP, a, 42000, ok)
    \/ \E n \in {<< >>, HP}, ok \in BOOLEAN : get_usage_stats(n, 1, ok)
    \/ \E ok \in BOOLEAN : health_check(ok)
    \/ clear_cache

\* Every public operation of the Persistence Gateway
PersistenceSpec == ContextInit /\ [][PersistenceNext]_vars

---------------------------------------------------------------------------
(* The prompt: VertexClaudeV2._build_prompt *)

MaxPrior == 12         \* a history has 0..MaxPrior messages

\* conversation_history[-10:]
HistoryLimit == 10

\* a window of the first messages instead of the last
WindowOldest(h) == SubSeq(h, 1, IF Len(h) > HistoryLimit THEN HistoryLimit ELSE Len(h))

\* history_to_include = conversation_history[-10:]
Window(h) ==
    IF Len(h) > HistoryLimit THEN SubSeq(h, Len(h) - HistoryLimit + 1, Len(h)) ELSE h

\* str.upper on a role
Upper(role) ==
    CASE role = "user" -> "USER" [] role = "assistant" -> "ASSISTANT"
      [] role = "system" -> "SYSTEM" [] OTHER -> role

\* f"{role}: {content}\n\n", as the pieces it is put together from
Line(role, content) == <<role, ": ", content>>

\* _build_system_prompt: the base prompt, with the heading of the project
\* context when a non-empty context is given
SystemPrompt(ctx) ==
    <<"You are Claude", IF ctx # NoDoc THEN "CURRENT PROJECT CONTEXT" ELSE "">>

\* _build_prompt: system prompt, history window, the new message, the
\* assistant marker
BuildPrompt(message, ctx, h) ==
    <<SystemPrompt(ctx)>>
      \o [i \in 1..Len(Window(h)) |->
            Line(Upper(Window(h)[i].role), Window(h)[i].content)]
      \o <<Line("USER", message), <<"ASSISTANT", ":">>>>

\* A history of n messages with alternating roles; message i has the
\* content ToString(i)
History(n, first) ==
    [i \in 1..n |->
        [role |-> IF (i % 2 = 1) = (first = "user") THEN "user" ELSE "assistant",
         content |-> ToString(i)]]

Histories == {History(n, f) : n \in 0..MaxPrior, f \in {"user", "assistant"}}

\* _build_prompt called with the arguments drawn at the start
build_prompt ==
    /\ prompt = << >>
    /\ prompt' = BuildPrompt(user_message, context, conversation_history)
    /\ UNCHANGED <<user_message, context, conversation_history>>
    /\ UNCHANGED <<gatewayVars, storeVars, sessionVars, saverVars>>

PromptInit ==
    /\ user_message \in {"hello", "3"}
    /\ context \in {NoDoc, DefaultContext(HP)}
    /\ conversation_history \in Histories
    /\ prompt = << >>
    /\ GatewayIdle
    /\ StoreIdle
    /\ SessionIdle
    /\ savers = << >>
    /\ primaries = << >>
    /\ boot = << >>

PromptNext == build_prompt

\* _build_prompt on every history of up to MaxPrior messages
PromptSpec == PromptInit /\ [][PromptNext]_vars

---------------------------------------------------------------------------
(* Session Controller: app_v2.py *)

\* retry_count: int = 3, the default handle_user_input calls chat with
DefaultRetries == 3

\* welcome_msg of render_main_content (its text left out)
Greeting == [role |-> "assistant", content |-> "welcome"]

\* a render that greets on every run of the script
RenderFresh(msgs) == <<Greeting>>

\* render_main_content, lines 336-350: an empty transcript gets the greeting
Render(msgs) == IF msgs = << >> THEN <<Greeting>> ELSE msgs

\* a turn that keeps error texts out of the transcript
AppendAssistantUnlessError(msgs, response) ==
    IF response = Response
      THEN Append(msgs, [role |-> "assistant", content |-> response])
      ELSE msgs

\* st.session_state.messages.append({"role": "assistant", ...}), line 394
AppendAssistant(msgs, response) ==
    Append(msgs, [role |-> "assistant", content |-> response])

\* a turn that hands chat the transcript as it was before the user message
handle_user_input_prior_history(input, storeOk, p) ==
    /\ turn = "idle"
    /\ turn' = "chatting"
    /\ user_input' = input
    /\ messages' = Append(messages, [role |-> "user", content |-> input])
    /\ get_project_context_body(current_project, storeOk)
    /\ chat_body(DefaultRetries, TRUE, p)
    /\ IF Configured
         THEN /\ user_message' = input
              /\ context' = last'.doc
              /\ conversation_history' = messages
              /\ prompt' = BuildPrompt(input, last'.doc, messages)
         ELSE UNCHANGED promptVars
    /\ UNCHANGED <<current_project, request_count, session_total_cost>>
    /\ UNCHANGED saverVars

\* handle_user_input from its entry to the first remote call of chat
\* (lines 369-387): the user message is appended, the context of the
\* current project is loaded, chat builds the prompt from the transcript.
\* No callee raises: get_project_context and chat catch every exception,
\* every message of the transcript has a role and a content.
handle_user_input(input, storeOk, p) ==
    /\ turn = "idle"
    /\ turn' = "chatting"
    /\ user_input' = input
    /\ messages' = Append(messages, [role |-> "user", content |-> input])
    /\ get_project_context_body(current_project, storeOk)
    /\ chat_body(DefaultRetries, TRUE, p)
    /\ IF Configured
         THEN /\ user_message' = input
              /\ context' = last'.doc
              /\ conversation_history' = messages'
              /\ prompt' = BuildPrompt(input, last'.doc, messages')
         ELSE UNCHANGED promptVars
    /\ UNCHANGED <<current_project, request_count, session_total_cost>>
    /\ UNCHANGED saverVars

\* a turn whose auto-save stores its own exchange only
handle_user_input_returns_exchange(primaryOk, backupOk) ==
    /\ turn = "chatting"
    /\ pc = "done"
    /\ turn' = "idle"
    /\ request_count' = request_count + 1
    /\ session_total_cost' = session_total_cost + last_request_cost
    /\ messages' = AppendAssistant(messages, result)
    /\ save_conversation_body(current_project,
                              SubSeq(messages', Len(messages') - 1, Len(messages')),
                              primaryOk, backupOk)
    /\ UNCHANGED <<current_project, user_input>>
    /\ UNCHANGED <<gatewayVars, promptVars, saverVars>>

\* handle_user_input after chat has returned (lines 389-404): the
\* counters, the assistant message, the auto-save
handle_user_input_returns(primaryOk, backupOk) ==
    /\ turn = "chatting"
    /\ pc = "done"
    /\ turn' = "idle"
    /\ request_count' = request_count + 1
    /\ session_total_cost' = session_total_cost + last_request_cost
    /\ messages' = AppendAssistant(messages, result)
    /\ save_conversation_body(current_project, messages', primaryOk, backupOk)
    /\ UNCHANGED <<current_project, user_input>>
    /\ UNCHANGED <<gatewayVars, promptVars, saverVars>>

\* a project button of the sidebar (lines 264-266) and the run of the
\* script it starts
switch_project(name) ==
    /\ turn = "idle"
    /\ current_project' = name
    /\ messages' = Render(messages)
    /\ UNCHANGED <<request_count, session_total_cost, turn, user_input>>
    /\ UNCHANGED <<gatewayVars, storeVars, promptVars, saverVars>>

\* the Save button (lines 320-330)
save_button(primaryOk, backupOk) ==
    /\ turn = "idle"
    /\ save_conversation_body(current_project, messages, primaryOk, backupOk)
    /\ UNCHANGED <<gatewayVars, appVars>>

\* the Clear button (lines 332-334) and the run of the script it starts
clear_button ==
    /\ turn = "idle"
    /\ messages' = Render(<< >>)
    /\ UNCHANGED <<current_project, request_count, session_total_cost, turn,
                   user_input>>
    /\ UNCHANGED <<gatewayVars, storeVars, promptVars, saverVars>>

\* initialize_session_state and the first run of the script
SessionInit ==
    /\ messages = Render(<< >>)
    /\ current_project = HP
    /\ request_count = 0
    /\ session_total_cost = 0
    /\ turn = "idle"
    /\ user_input = ""
    /\ PromptIdle
    /\ savers = << >>
    /\ primaries = << >>
    /\ boot = << >>
    /\ GatewayInit
    /\ StoreInit
    /\ mission = MissionData

SessionNext ==
    \/ \E ok \in BOOLEAN, p \in PromptLengths : handle_user_input("q", ok, p)
    \/ generate_content_returns(LenUnit, 1)
    \/ generate_content_raises("generate_content", 1)
    \/ sleep_returns
    \/ \E pOk \in BOOLEAN : handle_user_input_returns(pOk, FALSE)
    \/ \E n \in {HP, FC} : switch_project(n)
    \/ \E pOk \in BOOLEAN : save_button(pOk, FALSE)
    \/ clear_button

\* One session: turns, project switches, Save and Clear, on a seeded store
\* whose backup collection rejects every append
SessionSpec == SessionInit /\ [][SessionNext]_vars

\* The transcript of a session after k turns whose chats all returned the
\* error text err: the greeting, then user message and error text k times;
\* the user message of turn i has the content ToString(i)
Transcript(k, err) ==
    <<Greeting>> \o
    [i \in 1..(2 * k) |->
        IF i % 2 = 1 THEN [role |-> "user", content |-> ToString((i + 1) \div 2)]
                     ELSE [role |-> "assistant", content |-> err]]

\* A session that has had up to MaxPrior \div 2 turns, none of which got a
\* response or was saved: every remote call failed, or the gateway has no
\* model handle
TurnInit ==
    /\ GatewayInit
    /\ \E k \in 0..(MaxPrior \div 2) :
          /\ messages = Transcript(k, IF model THEN RequestFailed ELSE NotConfigured)
          /\ request_count = k
    /\ current_project = HP
    /\ session_total_cost = 0
    /\ turn = "idle"
    /\ user_input = ""
    /\ PromptIdle
    /\ savers = << >>
    /\ primaries = << >>
    /\ boot = << >>
    /\ StoreInit
    /\ mission = MissionData

TurnNext ==
    \/ \E ok \in BOOLEAN, p \in PromptLengths : handle_user_input("q", ok, p)
    \/ generate_content_returns(LenUnit, 1)
    \/ generate_content_raises("generate_content", 1)
    \/ sleep_returns
    \/ \E pOk \in BOOLEAN : handle_user_input_returns(pOk, FALSE)

\* Turns of a session whose transcript is already long
TurnSpec == TurnInit /\ [][TurnNext]_vars

---------------------------------------------------------------------------
(* Construction of the Persistence Gateway *)

\* a bootstrap that takes every document for absent
AbsentAlways(present) == TRUE

\* not mission_ref.get().exists (line 54), not project_ref.get().exists
\* (line 129)
Absent(present) == ~present

\* _initialize_projects: each seed project is set if its document is
\* absent; an access that raises (the ids in fails) skips that project only
InitializeProjects(stored, fails) ==
    LET new == {id \in SeedIds \ fails : Absent(id \in DOMAIN stored)}
    IN  [id \in DOMAIN stored \cup new |->
            IF id \in new THEN SeedProjects[id] ELSE stored[id]]

\* ContextManagerV2() (lines 26-43) with _initialize_mission_context and
\* _initialize_projects.  hasId: GCP_PROJECT_ID is set; clientOk:
\* firestore.Client returns; missionOk: the accesses of mission/bootstrap
\* do not raise; fails: the project ids whose access raises.
ContextManagerV2(hasId, clientOk, missionOk, fails) ==
    LET client == hasId /\ clientOk
    IN  /\ db' = client
        /\ cache' = << >>
        /\ IF client /\ missionOk
             THEN /\ mission' = IF Absent(mission # NoDoc) THEN MissionData ELSE mission
                  /\ projects' = InitializeProjects(projects, fails)
             ELSE UNCHANGED <<mission, projects>>
        /\ last' = [NoObs EXCEPT !.op = "init", !.queried = client,
                                 !.readok = client /\ missionOk,
                                 !.ok = client /\ missionOk /\ fails = {},
                                 !.wrote = mission' # mission \/ projects' # projects]
        /\ UNCHANGED <<conversations, history, executions, now, ticks, saved>>
        /\ UNCHANGED <<gatewayVars, appVars>>

\* Documents somebody changed after they were seeded
EditedMission == [MissionData EXCEPT !.goal_revenue = 20000]
Paused(doc) == [doc EXCEPT !.status = "Paused"]

\* What the collection 'projects' may hold before a construction: any of
\* the seed documents, as seeded or changed since
StoredProjects ==
    UNION {{f \in [S -> {SeedProjects[id] : id \in SeedIds}
                         \cup {Paused(SeedProjects[id]) : id \in SeedIds}] :
               \A id \in S : f[id].name = SeedProjects[id].name} :
           S \in SUBSET SeedIds}

\* Before the first construction: no gateway object, a store in any state
ConstructInit ==
    /\ db = FALSE
    /\ cache = << >>
    /\ mission \in {NoDoc, MissionData, EditedMission}
    /\ projects \in StoredProjects
    /\ conversations = << >>
    /\ history = << >>
    /\ executions = << >>
    /\ now = 0
    /\ ticks = 0
    /\ last = NoObs
    /\ saved = << >>
    /\ GatewayIdle
    /\ AppIdle

ConstructNext ==
    \/ \E hasId \in BOOLEAN, clientOk \in BOOLEAN, missionOk \in BOOLEAN,
          fails \in SUBSET SeedIds : ContextManagerV2(hasId, clientOk, missionOk, fails)
    \/ \E n \in {HP, FC}, ok \in BOOLEAN :
          update_project_status(n, "Live", [priority |-> 9], ok)

\* Gateways constructed one after the other on a store that is updated
\* in between
ConstructSpec == ConstructInit /\ [][ConstructNext]_vars

---------------------------------------------------------------------------
(* Every operation that takes a project name *)

\* Spellings of the seeded names, and a name without a document
KeyNames == {HP, h_p, NX}

\* No gateway object yet, an empty store
KeyInit ==
    /\ db = FALSE
    /\ cache = << >>
    /\ mission = NoDoc
    /\ projects = << >>
    /\ conversations = << >>
    /\ history = << >>
    /\ executions = << >>
    /\ now = 0
    /\ ticks = 0
    /\ last = NoObs
    /\ saved = << >>
    /\ GatewayIdle
    /\ AppIdle

KeyNext ==
    \/ \E ok \in BOOLEAN, fails \in {{}, {first_contact}} :
          ContextManagerV2(TRUE, TRUE, ok, fails)
    \/ \E n \in KeyNames, ok \in BOOLEAN : get_project_context(n, ok)
    \/ \E n \in KeyNames, ok \in BOOLEAN :
          save_conversation(n, <<UserMsg, AssistantMsg>>, ok, FALSE)
    \/ \E n \in KeyNames, ok \in BOOLEAN : get_last_conversation(n, ok)
    \/ \E n \in KeyNames, ok \in BOOLEAN :
          update_project_status(n, "Paused", NoUpdates, ok)

\* Construction, then reads and writes under several spellings of a name
KeySpec == KeyInit /\ [][KeyNext]_vars

---------------------------------------------------------------------------
(* Another process writing to the store *)

\* update_project_status run by another process on its own gateway
\* object: the document changes, the cache of this process is not touched
other_process_update(project, status) ==
    LET id == DocId(project)
    IN  /\ id \in DOMAIN projects
        /\ projects' = Put(projects, id,
                           Merge(projects[id], UpdateData(status, NoUpdates)))
        /\ last' = [NoObs EXCEPT !.op = "other", !.name = project,
                                 !.doc = projects'[id], !.wrote = TRUE]
        /\ UNCHANGED <<db, cache, mission, conversations, history, executions,
                       now, ticks, saved>>
        /\ UNCHANGED <<gatewayVars, appVars>>

\* ContextManagerV2() run by another process on the same store: absent
\* documents are seeded, the gateway object of this process is not touched
other_process_construct(fails) ==
    /\ mission' = IF Absent(mission # NoDoc) THEN MissionData ELSE mission
    /\ projects' = InitializeProjects(projects, fails)
    /\ last' = [NoObs EXCEPT !.op = "other",
                             !.wrote = mission' # mission \/ projects' # projects]
    /\ UNCHANGED <<db, cache, conversations, history, executions, now, ticks, saved>>
    /\ UNCHANGED <<gatewayVars, appVars>>

\* This process has no client, or has one and found the store failing
\* when it was constructed: nothing is seeded yet
AppearInit ==
    /\ StoreInit
    /\ mission = NoDoc
    /\ GatewayIdle
    /\ AppIdle

AppearNext ==
    \/ \E n \in {HP, NX}, ok \in BOOLEAN : get_project_context(n, ok)
    \/ \E fails \in {{}, {haven_platform}} : other_process_construct(fails)
    \/ \E d \in TickSteps : Tick(d)

\* Reads of this process on a store another process seeds meanwhile
AppearSpec == AppearInit /\ [][AppearNext]_vars

\* This process has a client, the store is seeded
StaleInit ==
    /\ StoreInit
    /\ db
    /\ mission = MissionData
    /\ GatewayIdle
    /\ AppIdle

StaleNext ==
    \/ \E n \in {HP, h_p}, ok \in BOOLEAN : get_project_context(n, ok)
    \/ \E st \in NewStatuses : other_process_update(HP, st)
    \/ \E d \in TickSteps : Tick(d)

\* Reads of this process, writes of another, and the clock
StaleSpec == StaleInit /\ [][StaleNext]_vars

---------------------------------------------------------------------------
(* Concurrent construction: the bootstrap as the store sees it *)

\* The processes that construct a gateway
Procs == {1, 2}

\* The order of the dict `projects` of _initialize_projects
SeedOrder == <<haven_platform, first_contact, company_site>>

\* The bootstrap of one process visits mission/bootstrap (at = 0) and then
\* the seed projects in order (at = 1..3): for each, a read of its
\* existence ("check") and, if it was absent, a set ("write"); at = 4: done
BootStart == [at |-> 0, phase |-> "check"]

\* mission_ref.get().exists (line 54), project_ref.get().exists (line 129)
Exists(at) == IF at = 0 THEN mission # NoDoc ELSE SeedOrder[at] \in DOMAIN projects

\* the read of existence by process p: two requests to the store, the
\* read here and the set of boot_write, with any number of steps of other
\* processes between them
boot_check(p) ==
    /\ boot[p].phase = "check"
    /\ boot[p].at <= Len(SeedOrder)
    /\ boot' = [boot EXCEPT ![p] =
                   IF Absent(Exists(boot[p].at))
                     THEN [at |-> boot[p].at, phase |-> "write"]
                     ELSE [at |-> boot[p].at + 1, phase |-> "check"]]
    /\ last' = [NoObs EXCEPT !.op = "boot", !.queried = TRUE, !.readok = TRUE]
    /\ UNCHANGED <<db, cache, mission, projects, conversations, history,
                   executions, now, ticks, saved>>
    /\ UNCHANGED <<gatewayVars, sessionVars, promptVars, savers, primaries>>

\* mission_ref.set(mission_data) (line 70), project_ref.set(project_data)
\* (line 132) by process p
boot_write(p) ==
    /\ boot[p].phase = "write"
    /\ IF boot[p].at = 0
         THEN /\ mission' = MissionData
              /\ projects' = projects
         ELSE /\ projects' = Put(projects, SeedOrder[boot[p].at],
                                 SeedProjects[SeedOrder[boot[p].at]])
              /\ mission' = mission
    /\ boot' = [boot EXCEPT ![p] = [at |-> boot[p].at + 1, phase |-> "check"]]
    /\ last' = [NoObs EXCEPT !.op = "boot", !.queried = TRUE, !.readok = TRUE,
                             !.wrote = TRUE]
    /\ UNCHANGED <<db, cache, conversations, history, executions, now, ticks, saved>>
    /\ UNCHANGED <<gatewayVars, sessionVars, promptVars, savers, primaries>>

\* Two processes have created their clients (line 36) on a store that
\* holds nothing yet; none has started its bootstrap
BootInit ==
    /\ StoreInit
    /\ db
    /\ projects = << >>
    /\ GatewayIdle
    /\ SessionIdle
    /\ PromptIdle
    /\ savers = << >>
    /\ primaries = << >>
    /\ boot = [p \in Procs |-> BootStart]

BootNext ==
    \/ \E p \in Procs : boot_check(p)
    \/ \E p \in Procs : boot_write(p)
    \/ \E n \in {HP, FC}, st \in NewStatuses : other_process_update(n, st)

\* Two constructions and status updates, request by request
BootSpec == BootInit /\ [][BootNext]_vars

---------------------------------------------------------------------------
(* The execution log and its statistics *)

MaxEntries == 2        \* entries of the executions collection at the start

\* The time of the statistics call, and the times of the entries: two days
\* before it, exactly one day before it, one minute before it
UsageNow == 2 * SecondsPerDay
EntryTimes == {0, SecondsPerDay, 2 * SecondsPerDay - 60}

\* What log_execution has written (lines 343-349, without result): costs
\* of 0.0105 and of 0.001075 dollar
Entries ==
    [project : {HP, FC}, action : Actions, cost : {42000, 4300},
     timestamp : EntryTimes]

\* A gateway with a client, or without; a log written earlier by any
\* processes
UsageInit ==
    /\ db \in BOOLEAN
    /\ cache = << >>
    /\ mission = MissionData
    /\ projects = SeedProjects
    /\ conversations = << >>
    /\ history = << >>
    /\ executions \in UNION {[1..n -> Entries] : n \in 0..MaxEntries}
    /\ now = UsageNow
    /\ ticks = 0
    /\ last = NoObs
    /\ saved = << >>
    /\ GatewayIdle
    /\ AppIdle

UsageNext ==
    \E n \in {<< >>, HP, FC}, days \in {1, 2}, ok \in BOOLEAN :
        get_usage_stats(n, days, ok)

\* get_usage_stats on every log of up to MaxEntries entries
UsageSpec == UsageInit /\ [][UsageNext]_vars

---------------------------------------------------------------------------
(* Two sessions saving conversations concurrently *)

MaxSaves == 1          \* saves per session

\* Each session has its own ContextManagerV2 (app_v2.py:178-179) built in
\* the same environment; the store is what they share.
Sessions == {1, 2}

Transcripts == {<<UserMsg, AssistantMsg>>,
                <<AssistantMsg, UserMsg, AssistantMsg, UserMsg, AssistantMsg>>}

NoSave == [pc |-> "idle", n |-> 0, project |-> << >>, msgs |-> << >>,
           wrote |-> FALSE, ok |-> FALSE]

SaversInit ==
    /\ savers = [s \in Sessions |-> NoSave]
    /\ primaries = << >>
    /\ boot = << >>

\* save_conversation of session s up to and including the primary write
\* (lines 197-215); without a client, or when the write raises, it returns
\* False (lines 197-199, 223-225)
save_primary(s, project, msgs, primaryOk) ==
    LET id == DocId(project)
        n == savers[s].n + 1
        call == [pc |-> "returned", n |-> n, project |-> project, msgs |-> msgs,
                 wrote |-> FALSE, ok |-> FALSE]
    IN  /\ savers[s].pc \in {"idle", "returned"}
        /\ savers[s].n < MaxSaves
        /\ IF db /\ primaryOk
             THEN /\ conversations' = Put(conversations, id,
                                          ConversationData(project, msgs))
                  /\ primaries' = Append(primaries,
                                         [session |-> s, n |-> n, id |-> id,
                                          project |-> project, msgs |-> msgs])
                  /\ savers' = [savers EXCEPT ![s] =
                                   [call EXCEPT !.pc = "backup", !.wrote = TRUE]]
                  /\ last' = last
             ELSE /\ UNCHANGED <<conversations, primaries>>
                  /\ savers' = [savers EXCEPT ![s] = call]
                  /\ last' = [NoObs EXCEPT !.op = "save", !.name = project,
                                           !.msgs = msgs, !.queried = db]
        /\ UNCHANGED <<db, cache, mission, projects, history, executions, now,
                       ticks, saved, boot>>
        /\ UNCHANGED <<gatewayVars, sessionVars, promptVars>>

\* the backup append of session s and the return of its save_conversation
\* (lines 219-221, 227-238)
save_history(s, backupOk) ==
    LET c == savers[s]
        ret == SaveReturns(c.wrote, backupOk)
    IN  /\ c.pc = "backup"
        /\ history' = IF backupOk
                        THEN Append(history,
                               [project |-> c.project, messages |-> c.msgs,
                                message_count |-> Len(c.msgs)])
                        ELSE history
        /\ savers' = [savers EXCEPT ![s] = [c EXCEPT !.pc = "returned", !.ok = ret]]
        /\ saved' = IF ret THEN Put(saved, DocId(c.project), c.msgs) ELSE saved
        /\ last' = [NoObs EXCEPT !.op = "save", !.name = c.project, !.msgs = c.msgs,
                                 !.queried = TRUE, !.readok = TRUE, !.ok = ret,
                                 !.wrote = TRUE,
                                 !.backup = IF backupOk THEN "ok" ELSE "failed"]
        /\ UNCHANGED <<db, cache, mission, projects, conversations, executions,
                       now, ticks, primaries, boot>>
        /\ UNCHANGED <<gatewayVars, sessionVars, promptVars>>

SaversSpecInit == StoreInit /\ GatewayIdle /\ SessionIdle /\ PromptIdle /\ SaversInit

SaversNext ==
    \/ \E s \in Sessions, n \in {HP, h_p}, m \in Transcripts, ok \in BOOLEAN :
          save_primary(s, n, m, ok)
    \/ \E s \in Sessions, ok \in BOOLEAN : save_history(s, ok)

\* Two sessions saving, their store accesses interleaved in every way
SaversSpec == SaversSpecInit /\ [][SaversNext]_vars

---------------------------------------------------------------------------
(* Claims about the Persistence Gateway *)

\* C6: after get_project_context(P) has fetched P at time t, every
\* get_project_context(P) at a time < t + 300 returns the cached value
\* without a query and leaves the entry and its timestamp as they are, and
\* a call at a time >= t + 300 queries the store again; a fetch stores the
\* document with the time of the fetch.
C6_CacheTTL ==
    [][last'.op = "get" =>
         LET key == CacheKey(last'.name) IN
         /\ (key \in DOMAIN cache /\ now < cache[key].time + 300) =>
                /\ last'.doc = cache[key].data
                /\ ~last'.queried
                /\ cache' = cache
         /\ (key \in DOMAIN cache /\ now >= cache[key].time + 300) =>
                last'.queried
         /\ (last'.queried /\ last'.doc # DefaultContext(last'.name)) =>
                /\ key \in DOMAIN cache'
                /\ cache'[key] = [data |-> last'.doc, time |-> now]]_vars

\* a hit on an entry fetched 299 seconds ago
C6_Witness ==
    /\ last.op = "get" /\ ~last.queried /\ last.name = HP
    /\ CacheKey(HP) \in DOMAIN cache
    /\ cache[CacheKey(HP)].time = 1 /\ now = 300 /\ last.doc = cache[CacheKey(HP)].data

\* C7: after update_project_status(P, ...) has returned True the cache has
\* no entry under "project_" + P, and a get_project_context(P) on a cache
\* without that entry queries the store and, the read succeeding, returns
\* the document as stored, which right after the update is the updated
\* one; an update that returns False leaves the cache as it is.
C7_UpdateInvalidates ==
    /\ []((last.op = "update" /\ last.ok) => CacheKey(last.name) \notin DOMAIN cache)
    /\ [][(last'.op = "update" /\ ~last'.ok) => cache' = cache]_vars
    /\ [][(last'.op = "get" /\ db /\ CacheKey(last'.name) \notin DOMAIN cache) =>
             /\ last'.queried
             /\ (last'.readok /\ DocId(last'.name) \in DOMAIN projects) =>
                    last'.doc = projects[DocId(last'.name)]]_vars
    /\ [][(last.op = "update" /\ last.ok /\ last'.op = "get"
              /\ last'.name = last.name /\ last'.readok) =>
             last'.doc = last.doc]_vars

\* get_project_context(HP) has fetched the document an update paused
C7_Witness ==
    /\ last.op = "get" /\ last.name = HP /\ last.queried
    /\ last.doc = [name |-> HP, status |-> "Paused", priority |-> 9]
    /\ now = 1 /\ cache[CacheKey(HP)].time = 1

\* The operation `last` ran without a client, or its store access raised
Down == ~db \/ (last.queried /\ ~last.readok)

C8_Common ==
    /\ ~last.raised
    /\ (last.op = "get" /\ Down) =>
          /\ last.doc.name = last.name
          /\ last.doc.status = "Unknown"
          /\ last.doc.offline_mode = TRUE
    /\ (last.op \in {"save", "update", "log"} /\ Down) => ~last.ok
    /\ (last.op = "getlast" /\ Down) => last.msgs = << >>
    /\ (last.op = "health" /\ Down) => ~last.doc.healthy

\* C8 (as amended): with no client, or with the store access failing, no
\* public operation raises; get_project_context returns the default
\* context, save_conversation, update_project_status and log_execution
\* return False, get_last_conversation returns the empty sequence,
\* health_check reports healthy = False, and get_usage_stats returns a
\* mapping with the one field 'error'.
C8_Fallbacks ==
    /\ C8_Common
    /\ (last.op = "usage" /\ Down) => DOMAIN last.doc = {"error"}

C8_Witness ==
    /\ db /\ last.op = "usage" /\ last.queried /\ ~last.readok
    /\ last.doc = [error |-> "exception"] /\ Len(executions) = 1

\* C8 as stated: get_usage_stats returns a result of its documented shape
C8_AsStated ==
    /\ C8_Common
    /\ (last.op = "usage" /\ Down) =>
          DOMAIN last.doc = {"total_cost", "total_requests", "actions",
                             "period_days", "project"}

\* C9: save_conversation returns True exactly when the primary write
\* succeeded; the backup append is attempted only after it, and its
\* failure changes neither the return value nor the document written.
C9_SaveIndependentOfBackup ==
    last.op = "save" =>
        /\ last.ok <=> last.wrote
        /\ last.backup # "none" => last.wrote
        /\ last.wrote =>
              /\ DocId(last.name) \in DOMAIN conversations
              /\ conversations[DocId(last.name)] =
                    [project |-> last.name, messages |-> last.msgs,
                     message_count |-> Len(last.msgs), version |-> 2]

C9_Witness ==
    /\ last.op = "save" /\ last.backup = "failed" /\ last.ok
    /\ Len(last.msgs) = 2 /\ Len(history) = 1

\* C10: with a reachable store get_last_conversation(P) returns the
\* message list of the most recent save that returned True for a name with
\* the document id of P, and the empty sequence if there was none; the
\* stored document holds exactly that list and its length.
C10_LastSaveWins ==
    /\ \A id \in DOMAIN conversations :
          /\ id \in DOMAIN saved
          /\ conversations[id].messages = saved[id]
          /\ conversations[id].message_count = Len(saved[id])
    /\ (last.op = "getlast" /\ last.readok) =>
          last.msgs = IF DocId(last.name) \in DOMAIN saved
                        THEN saved[DocId(last.name)] ELSE << >>

\* five messages were saved as h_p, then two as HP: HP's conversation is
\* the two
C10_Witness ==
    /\ last.op = "getlast" /\ last.name = HP /\ last.readok
    /\ last.msgs = <<UserMsg, AssistantMsg>>
    /\ conversations[DocId(HP)].message_count = 2
    /\ Len(history) = 1 /\ history[1].project = h_p /\ history[1].message_count = 5

\* The last primary write to document id, by position in `primaries`
LastPrimary(id) ==
    LET I == {i \in 1..Len(primaries) : primaries[i].id = id}
    IN  primaries[CHOOSE i \in I : \A j \in I : j <= i]

\* C11: when sessions save conversations under the same document id in any
\* interleaving of their store accesses, the stored document is the project
\* name, the whole message list and the message count of the save whose
\* primary write came last, never a mixture of two saves; and every save
\* that made its primary write returns True, also when another session's
\* write came after it.
C11_LastWriterWins ==
    /\ \A id \in DOMAIN conversations :
          /\ \E i \in 1..Len(primaries) : primaries[i].id = id
          /\ conversations[id] =
                [project |-> LastPrimary(id).project,
                 messages |-> LastPrimary(id).msgs,
                 message_count |-> Len(LastPrimary(id).msgs), version |-> 2]
    /\ \A i \in 1..Len(primaries) : primaries[i].id \in DOMAIN conversations
    /\ \A s \in DOMAIN savers :
          /\ savers[s].pc = "backup" => savers[s].wrote
          /\ savers[s].pc = "returned" => (savers[s].ok <=> savers[s].wrote)

\* session 1 wrote two messages as HP, session 2 then wrote five as h_p and
\* finished its backup before session 1 did: the document is session 2's,
\* and both saves returned True
C11_Witness ==
    /\ Len(primaries) = 2
    /\ primaries[1].session = 1 /\ primaries[1].project = HP
    /\ primaries[2].session = 2 /\ primaries[2].project = h_p
    /\ Len(primaries[1].msgs) = 2 /\ Len(primaries[2].msgs) = 5
    /\ savers[1].pc = "returned" /\ savers[1].ok
    /\ savers[2].pc = "returned" /\ savers[2].ok
    /\ Len(history) = 2 /\ history[1].message_count = 5 /\ history[2].message_count = 2
    /\ conversations[DocId(HP)].message_count = 5
    /\ Len(conversations[DocId(HP)].messages) = 5
    /\ conversations[DocId(HP)].project = h_p

\* C12: a construction creates the mission document and each seed project
\* document only where that document is absent, with the seed values, and
\* changes no document that exists (nor any other collection); a
\* construction all of whose store accesses succeed leaves the mission
\* document and the three seed projects in the store, so that the
\* construction after it leaves the store exactly as it was.
C12_SeedsOnlyAbsent ==
    /\ [][last'.op = "init" =>
            /\ mission # NoDoc => mission' = mission
            /\ mission' # mission =>
                  mission' = [goal_revenue |-> 15000, primary_stream |-> HP,
                              founder |-> "James"]
            /\ \A id \in DOMAIN projects :
                  id \in DOMAIN projects' /\ projects'[id] = projects[id]
            /\ \A id \in DOMAIN projects' \ DOMAIN projects :
                  /\ id \in {haven_platform, first_contact, company_site}
                  /\ projects'[id].status \in {"Live", "Building", "Planning"}
                  /\ projects'[id] = SeedProjects[id]
            /\ UNCHANGED <<conversations, history, executions>>
            /\ last'.ok =>
                  /\ mission' # NoDoc
                  /\ {haven_platform, first_contact, company_site}
                        \subseteq DOMAIN projects']_vars
    /\ [][(last.op = "init" /\ last.ok /\ last'.op = "init") =>
            UNCHANGED <<mission, projects>>]_vars

\* a construction on a store with a changed mission document and changed
\* documents of HP and FC has seeded CS and left the three others alone
C12_Witness ==
    /\ last.op = "init" /\ last.ok /\ last.wrote
    /\ mission = EditedMission
    /\ projects[haven_platform] = [name |-> HP, status |-> "Live", priority |-> 9]
    /\ projects[first_contact].status = "Paused"
    /\ projects[company_site] = SeedProjects[company_site]

Min(a, b) == IF a < b THEN a ELSE b

\* The role names in capitals, as the prompt shows them
RoleShown == [user |-> "USER", assistant |-> "ASSISTANT"]

\* C17: for a history of n messages the built prompt is the system
\* preamble, then the last min(n, 10) history messages in their order,
\* each as "<ROLE>: <content>", then the one line "USER: <new message>",
\* then the assistant marker; no message older than the last 10 appears.
C17_HistoryWindow ==
    prompt # << >> =>
        LET n == Len(conversation_history)
            k == Min(n, 10)
        IN  /\ Len(prompt) = k + 3
            /\ prompt[1][1] = "You are Claude"
            /\ \A j \in 1..k :
                  prompt[1 + j] =
                     <<RoleShown[conversation_history[n - k + j].role], ": ",
                       conversation_history[n - k + j].content>>
            /\ prompt[k + 2] = <<"USER", ": ", user_message>>
            /\ prompt[k + 3] = <<"ASSISTANT", ":">>
            /\ \A i \in 1..(n - k) : \A j \in 2..(k + 1) :
                  prompt[j][3] # conversation_history[i].content

\* twelve messages: the prompt shows messages 3 to 12
C17_Witness ==
    /\ Len(conversation_history) = 12 /\ conversation_history[1].role = "user"
    /\ Len(prompt) = 13
    /\ prompt[2] = <<"USER", ": ", "3">>
    /\ prompt[11] = <<"ASSISTANT", ": ", "12">>
    /\ prompt[12] = <<"USER", ": ", "hello">>

\* handle_user_input begins, and returns
TurnBegins == turn = "idle" /\ turn' = "chatting"
TurnEnds == turn = "chatting" /\ turn' = "idle"

\* C13: a turn whose chat returned the not-configured error without
\* reaching the endpoint leaves request_count and the session's total cost
\* as they were, and a turn whose chat made a remote call adds exactly 1
\* to request_count, whether the call succeeded or failed.
C13_CountsOnlyReached ==
    [][TurnEnds =>
          /\ result = NotConfigured =>
                UNCHANGED <<request_count, session_total_cost>>
          /\ calls >= 1 => request_count' = request_count + 1]_vars

\* C14: a turn extends the transcript by the user message and then by one
\* assistant message holding what chat returned, an error text included,
\* whatever the auto-save returns; nothing else changes the transcript
\* during a turn; apart from Clear every step leaves the transcript a
\* prefix of the next one; the transcript starts with the greeting and its
\* roles alternate, assistant first.
C14_TranscriptAppendOnly ==
    /\ [](/\ Len(messages) >= 1
          /\ messages[1] = [role |-> "assistant", content |-> "welcome"]
          /\ \A i \in 1..Len(messages) :
                messages[i].role = IF i % 2 = 1 THEN "assistant" ELSE "user"
          /\ turn = "idle" => Len(messages) % 2 = 1
          /\ turn = "chatting" =>
                messages[Len(messages)] = [role |-> "user", content |-> user_input])
    /\ [][TurnBegins =>
            messages' = messages \o <<[role |-> "user", content |-> user_input']>>]_vars
    /\ [][TurnEnds =>
            /\ messages' = messages \o <<[role |-> "assistant", content |-> result]>>
            /\ last'.op = "save" /\ last'.msgs = messages']_vars
    /\ [][(turn = "chatting" /\ turn' = "chatting") => messages' = messages]_vars
    /\ [][\/ /\ Len(messages') >= Len(messages)
             /\ SubSeq(messages', 1, Len(messages)) = messages
          \/ /\ turn = "idle" /\ turn' = "idle"
             /\ messages' = <<[role |-> "assistant", content |-> "welcome"]>>]_vars

\* two turns: the first ended in the request-failed error, the second in a
\* response, and the auto-save of the second returned False
C14_Witness ==
    /\ turn = "idle" /\ Len(messages) = 5
    /\ messages[3].content = RequestFailed
    /\ messages[5].content = Response
    /\ last.op = "save" /\ ~last.ok /\ last.msgs = messages

\* C15: a switch of the current project changes current_project only: the
\* transcript, request_count and the session's total cost stay as they
\* are, and nothing is written to the store.
C15_SwitchChangesSelectorOnly ==
    [][current_project' # current_project =>
          /\ UNCHANGED <<messages, request_count, session_total_cost>>
          /\ UNCHANGED <<mission, projects, conversations, history, executions>>
          /\ UNCHANGED <<cache, last, saved>>]_vars

\* after a turn on HP the session switched to FC
C15_Witness ==
    /\ current_project = FC /\ turn = "idle"
    /\ Len(messages) = 3 /\ messages[3].content = Response
    /\ request_count = 1 /\ session_total_cost = CalculateCost(4000, 2000)
    /\ last.op = "save" /\ last.name = HP /\ last.ok
    /\ DOMAIN conversations = {DocId(HP)}

\* A step of the gateway between two chat calls that is no chat call:
\* reset_stats
ResetStep == UNCHANGED <<pc, chats, calls>>

\* C16 (as amended): reset_stats sets total_requests, total_cost and
\* last_request_cost to zero and leaves last_response_time and the model
\* handle unchanged, so get_stats after it reports a last request cost of
\* zero and the response time of the previous call.
C16_ResetZeroesCosts ==
    [][ResetStep =>
          /\ total_requests' = 0
          /\ total_cost' = 0
          /\ last_request_cost' = 0
          /\ UNCHANGED <<last_response_time, model>>
          /\ GetStats' = [total_requests |-> 0, total_cost |-> 0,
                          last_request_cost |-> 0,
                          last_response_time |-> GetStats.last_response_time]]_vars

\* reset_stats after a chat that succeeded at its third attempt
C16_Witness ==
    /\ pc = "done" /\ result = Response /\ calls = 3
    /\ total_requests = 0 /\ total_cost = 0 /\ last_request_cost = 0
    /\ last_response_time = 6 /\ response_chars = 2000

\* C16 as stated: reset_stats sets total_requests and total_cost to zero
\* and leaves last_request_cost, last_response_time and the model handle
\* unchanged.
C16_AsStated ==
    [][ResetStep =>
          /\ total_requests' = 0
          /\ total_cost' = 0
          /\ UNCHANGED <<last_request_cost, last_response_time, model>>
          /\ GetStats'.last_request_cost = GetStats.last_request_cost]_vars

\* A chat call ends in Success
SuccessStep == pc = "calling" /\ result' = Response

RECURSIVE Normalize(_)
Normalize(x) ==
    IF x = << >> THEN << >>
    ELSE LET c == Head(x)
             u == IF c = " " THEN "_" ELSE c
             small == [H |-> "h", P |-> "p", F |-> "f", C |-> "c", S |-> "s",
                       N |-> "n", X |-> "x"]
         IN  <<IF u \in DOMAIN small THEN small[u] ELSE u>> \o Normalize(Tail(x))

\* The function g differs from f at most at key k
OnlyAt(f, g, k) ==
    /\ DOMAIN g = DOMAIN f \cup (DOMAIN g \cap {k})
    /\ \A x \in DOMAIN f \ {k} : x \in DOMAIN g /\ g[x] = f[x]

\* C19: the document id of a name is normalize(name), and normalizing is
\* idempotent; a project read returns the document under normalize(name),
\* a conversation save writes and a load reads the document under
\* normalize(name), a status update changes the document under
\* normalize(name) and no other, and construction seeds each project under
\* normalize of its name.
C19_NormalizedKeys ==
    /\ [](\A n \in KeyNames \cup {FC, CS, <<"h", " ", "P">>} :
             /\ DocId(n) = Normalize(n)
             /\ DocId(DocId(n)) = DocId(n)
             /\ Normalize(Normalize(n)) = Normalize(n))
    /\ [](DocId(HP) = <<"h", "_", "p">>)
    /\ [][(last'.op = "get" /\ last'.queried /\ last'.readok) =>
             last'.doc = IF Normalize(last'.name) \in DOMAIN projects
                           THEN projects[Normalize(last'.name)]
                           ELSE DefaultContext(last'.name)]_vars
    /\ [][(last'.op = "save" /\ last'.wrote) =>
             /\ OnlyAt(conversations, conversations', Normalize(last'.name))
             /\ conversations'[Normalize(last'.name)].messages = last'.msgs
             /\ conversations'[Normalize(last'.name)].project = last'.name]_vars
    /\ [][(last'.op = "getlast" /\ last'.readok) =>
             last'.msgs = IF Normalize(last'.name) \in DOMAIN conversations
                            THEN conversations[Normalize(last'.name)].messages
                            ELSE << >>]_vars
    /\ [][last'.op = "update" =>
             /\ OnlyAt(projects, projects', Normalize(last'.name))
             /\ (last'.readok /\ Normalize(last'.name) \in DOMAIN projects) =>
                   /\ last'.ok
                   /\ projects'[Normalize(last'.name)].status = "Paused"]_vars
    /\ [][last'.op = "init" =>
             \A id \in DOMAIN projects' : id = Normalize(projects'[id].name)]_vars

\* 'H P' was paused under the spelling 'h_p' and read back as 'H P'; a
\* conversation saved as 'h_p' is loaded as 'H P'
C19_Witness ==
    /\ last.op = "getlast" /\ last.name = HP /\ last.readok /\ Len(last.msgs) = 2
    /\ <<"h", "_", "p">> \in DOMAIN conversations
    /\ conversations[<<"h", "_", "p">>].project = h_p
    /\ <<"h", "_", "p">> \in DOMAIN projects
    /\ projects[<<"h", "_", "p">>].status = "Paused"
    /\ CacheKey(HP) \in DOMAIN cache
    /\ cache[CacheKey(HP)].data.status = "Paused"
    /\ CacheKey(h_p) \notin DOMAIN cache
    /\ first_contact \notin DOMAIN projects

\* C20: another process's write leaves this process's cache as it is;
\* while this process holds an entry for P younger than 300 seconds
\* get_project_context(P) returns the entry's value, whatever the store
\* holds by now; at the first call 300 seconds or more after the fetch it
\* reads the store and, the store answering, returns the document as the
\* other process left it; so every value returned is read at the call or
\* was read less than 300 seconds before it.
C20_BoundedStaleness ==
    /\ [][last'.op = "other" => cache' = cache]_vars
    /\ [][last'.op = "get" =>
            LET key == <<"project_">> \o last'.name
                held == key \in DOMAIN cache
            IN  /\ (held /\ now - cache[key].time < 300) =>
                      ~last'.queried /\ last'.doc = cache[key].data
                /\ (held /\ now - cache[key].time >= 300) =>
                      /\ last'.queried
                      /\ last'.readok => /\ last'.doc = projects[DocId(last'.name)]
                                         /\ cache'[key].time = now
                /\ ~last'.queried => (held /\ now - cache[key].time < 300)]_vars

\* 299 seconds after the fetch get_project_context still returns the
\* status 'Live' that another process has changed to 'Paused'
C20_Witness ==
    /\ last.op = "get" /\ last.name = HP /\ ~last.queried
    /\ last.doc.status = "Live" /\ projects[DocId(HP)].status = "Paused"
    /\ now = 300 /\ cache[CacheKey(HP)].time = 1

\* The entries of the log that get_usage_stats(project, days) is to count
Counted(project, days) ==
    {i \in DOMAIN executions :
        /\ executions[i].timestamp >= now - days * 86400
        /\ project = << >> \/ executions[i].project = project}

\* The sum of f over the first n entries of the log that are in S
RECURSIVE CostUpTo(_, _)
CostUpTo(n, S) ==
    IF n = 0 THEN 0
    ELSE CostUpTo(n - 1, S) + (IF n \in S THEN executions[n].cost ELSE 0)

RECURSIVE SumValues(_)
SumValues(f) ==
    IF DOMAIN f = {} THEN 0
    ELSE LET k == CHOOSE x \in DOMAIN f : TRUE
         IN  f[k] + SumValues([x \in DOMAIN f \ {k} |-> f[x]])

C21_Counts ==
    (last.op = "usage" /\ last.readok) =>
        LET S == Counted(last.name, last.doc.period_days)
        IN  /\ last.doc.total_requests = Cardinality(S)
            /\ SumValues(last.doc.actions) = last.doc.total_requests
            /\ \A a \in DOMAIN last.doc.actions :
                  last.doc.actions[a] =
                     Cardinality({i \in S : executions[i].action = a})
            /\ \A i \in S : executions[i].action \in DOMAIN last.doc.actions

\* C21 (as amended): get_usage_stats(project, days) returns total_requests
\* equal to the number of log entries with timestamp >= now - days that
\* match the project filter (all when none is given), total_cost equal to
\* the sum of their costs rounded to four decimals of a dollar, and action
\* counts that sum to total_requests; other entries contribute nothing.
C21_UsageStatsRounded ==
    /\ C21_Counts
    /\ (last.op = "usage" /\ last.readok) =>
          LET sum == CostUpTo(Len(executions),
                              Counted(last.name, last.doc.period_days))
          IN  /\ last.doc.total_cost % 400 = 0
              /\ last.doc.total_cost - sum <= 200
              /\ sum - last.doc.total_cost <= 200

\* the last day of 'H P': of an entry two days old, one a day old and one
\* of 'F C', the one a day old counts, and its cost of 0.001075 dollar is
\* reported as 0.0011
C21_Witness ==
    /\ last.op = "usage" /\ last.readok /\ last.name = HP
    /\ last.doc.period_days = 1
    /\ Len(executions) = 2
    /\ executions[1] = [project |-> HP, action |-> "chat", cost |-> 42000, timestamp |-> 0]
    /\ executions[2] = [project |-> HP, action |-> "deploy", cost |-> 4300,
                        timestamp |-> 86400]
    /\ last.doc.total_requests = 1 /\ last.doc.total_cost = 4400
    /\ last.doc.actions = [deploy |-> 1]

\* C21 as stated: total_cost is the sum of the costs of the entries counted
C21_AsStated ==
    /\ C21_Counts
    /\ (last.op = "usage" /\ last.readok) =>
          last.doc.total_cost =
             CostUpTo(Len(executions), Counted(last.name, last.doc.period_days))


\* C22: between turns the session's total cost equals the gateway's total
\* cost, the sum of the costs of the chats that ended in a response: a
\* turn whose chat ended in an error text adds nothing to it.
C22_SessionCostIsGatewayCost ==
    turn = "idle" => /\ session_total_cost = total_cost
                     /\ session_total_cost = okCost

\* C23: a get_project_context that follows an update_project_status that
\* returned True, in the same process and for a name with the same
\* document id, returns the updated document unless its read of the store
\* fails, whatever the spelling of the two names and whatever the cache
\* holds.
C23_UpdateSeenUnderEveryName ==
    [][(/\ last.op = "update" /\ last.ok
        /\ last'.op = "get" /\ DocId(last'.name) = DocId(last.name)
        /\ ~(last'.queried /\ ~last'.readok))
          => last'.doc = projects[DocId(last.name)]]_vars

\* C28: after update_project_status(project, status, updates) has
\* returned True the stored document's status is the status argument,
\* whatever updates holds; the other fields of updates are in the
\* document and the fields named in neither are as they were.
C28_StatusArgumentStored ==
    [][(last'.op = "update" /\ last'.ok) =>
          LET id == DocId(last'.name)
          IN  /\ projects'[id].status = last'.status
              /\ \A f \in DOMAIN projects[id] :
                    \/ f \in DOMAIN projects'[id] /\ projects'[id][f] = projects[id][f]
                    \/ f = "status"
                    \/ f = "priority" /\ projects'[id][f] = 9]_vars

\* A save_conversation of the session: the auto-save of a turn or the Save
\* button
SessionSaves == last'.op = "save" /\ last' # last

\* C26: the conversation document a turn's auto-save or the Save button
\* writes is stored under the document id of the project current at that
\* moment and holds the whole transcript of the session, messages
\* exchanged under another project included; no other conversation
\* document changes, and a save whose write fails changes none.
C26_SaveWholeTranscriptUnderCurrent ==
    /\ [][SessionSaves =>
            /\ last'.name = current_project'
            /\ current_project' = current_project
            /\ IF last'.wrote
                 THEN conversations' =
                         Put(conversations, DocId(current_project),
                             [project |-> current_project, messages |-> messages',
                              message_count |-> Len(messages'), version |-> 2])
                 ELSE conversations' = conversations]_vars
    /\ [][TurnEnds => SessionSaves]_vars

\* a turn under 'H P', a switch to 'F C', a turn under 'F C': the document
\* of 'F C' holds all five messages, that of 'H P' the first three
C26_Witness ==
    /\ turn = "idle" /\ current_project = FC /\ Len(messages) = 5
    /\ last.op = "save" /\ last.name = FC /\ last.wrote
    /\ DOMAIN conversations = {DocId(HP), DocId(FC)}
    /\ conversations[DocId(FC)].messages = messages
    /\ conversations[DocId(FC)].project = FC
    /\ conversations[DocId(HP)].messages = SubSeq(messages, 1, 3)
    /\ conversations[DocId(HP)].project = HP

\* C27: while chat runs in a turn, the history it was called with is the
\* transcript with the new user message as its last element, so the
\* history window of the prompt is that message preceded by at most 9
\* earlier messages, the most recent ones, and the message stands in the
\* prompt twice: as the last history line and as the final "USER:" line.
C27_MessageTwiceInPrompt ==
    (turn = "chatting" /\ prompt # << >>) =>
        LET n == Len(messages)
            k == Min(n, 10)
        IN  /\ conversation_history = messages
            /\ user_message = user_input
            /\ messages[n] = [role |-> "user", content |-> user_input]
            /\ Len(prompt) = k + 3
            /\ k - 1 <= 9
            /\ \A j \in 1..(k - 1) :
                  prompt[1 + j] = <<RoleShown[messages[n - k + j].role], ": ",
                                    messages[n - k + j].content>>
            /\ prompt[k + 1] = <<"USER", ": ", user_input>>
            /\ prompt[k + 2] = <<"USER", ": ", user_input>>
            /\ prompt[k + 3] = <<"ASSISTANT", ":">>

\* the sixth turn of a session: the transcript has 12 messages, the prompt
\* shows messages 3 to 12 and then the new message again
C27_Witness ==
    /\ turn = "chatting" /\ Len(messages) = 12 /\ request_count = 5
    /\ Len(prompt) = 13
    /\ prompt[2] = <<"ASSISTANT", ": ", RequestFailed>>
    /\ prompt[3] = <<"USER", ": ", "2">>
    /\ prompt[11] = <<"USER", ": ", "q">>
    /\ prompt[12] = <<"USER", ": ", "q">>

\* A get_project_context that changed what is observed or cached
GetStep == last'.op = "get" /\ (last' # last \/ cache' # cache)

\* C24: the cache holds documents read from the store only, never a
\* default context.  A get_project_context that finds no fresh entry
\* under its name queries the store whenever there is a client: when the
\* read succeeds and the document exists it returns and caches the
\* document, otherwise it returns the default context and leaves the
\* cache as it is, so the next call queries again.
C24_NoNegativeCaching ==
    /\ [](\A key \in DOMAIN cache :
             /\ "offline_mode" \notin DOMAIN cache[key].data
             /\ \E id \in DOMAIN projects : cache[key].data = projects[id])
    /\ [][GetStep =>
            LET name == last'.name
                key == <<"project_">> \o name
                id == DocId(name)
                hit == key \in DOMAIN cache /\ now - cache[key].time < 300
            IN  ~hit =>
                  /\ last'.queried = db
                  /\ IF last'.readok /\ id \in DOMAIN projects
                       THEN /\ last'.doc = projects[id]
                            /\ cache' = Put(cache, key,
                                            [data |-> projects[id], time |-> now])
                       ELSE /\ last'.doc.offline_mode
                            /\ last'.doc.name = name
                            /\ cache' = cache]_vars
    /\ [][cache' # cache => GetStep /\ last'.readok]_vars

\* the document of 'H P' exists by now, the read of it failed and the
\* default context was returned: the cache is still empty
C24_Witness ==
    /\ last.op = "get" /\ last.name = HP
    /\ last.doc = DefaultContext(HP) /\ last.queried /\ ~last.readok
    /\ DocId(HP) \in DOMAIN projects
    /\ now > 0
    /\ cache = << >>

\* C25: while two processes construct their gateways concurrently and
\* statuses are updated in between, no set of a bootstrap replaces a
\* document that exists: an existing mission document stays as it is, and
\* an existing project document changes in update_project_status only.
C25_BootstrapNeverOverwrites ==
    /\ [][mission # NoDoc => mission' = mission]_vars
    /\ [][\A id \in DOMAIN projects :
             \/ id \in DOMAIN projects' /\ projects'[id] = projects[id]
             \/ last'.op = "other"]_vars

=============================================================================
